---- MODULE Spec2Model ----
(***************************************************************************)
(* Cycle-accurate model of VGATerminalSubtarget, the character scan-out    *)
(* engine of the vga-terminal applet                                       *)
(* (software/glasgow/applet/vga_terminal/__init__.py).                     *)
(*                                                                         *)
(* One step of the model is one rising edge of the "pix" clock domain.     *)
(* Every synchronous statement reads the values its operands had before    *)
(* the edge; combinatorial signals are operators over the registers.       *)
(***************************************************************************)
EXTENDS Integers, Naturals, Sequences, FiniteSets, TLC

\* ------------------------------------------------------------------------
\* Configuration used by the checked instances (a scaled-down screen).
\* ------------------------------------------------------------------------
font_width  == 4      \* glyph width in pixels
font_height == 2      \* glyph height in scanlines
CellsPerRow == 3      \* text columns of the well-formed configuration
CharRows    == 2      \* text rows of the well-formed configuration
blink_cyc   == 2      \* blink half period in pixel clocks

PipeDepth   == 3      \* blanking ticks counted after a frame reset or line advance
MaxBlank    == 5      \* longest horizontal blanking interval generated

\* longest vertical blanking interval generated: long enough for a run of
\* horizontal_enable ticks of more than one glyph width
MaxVBlank == font_width + 1

CharWidth == 8        \* width of a character memory word
AttrWidth == 5        \* width of an attribute memory word
FontCodes == 256      \* glyphs in the font memory

BOOL == {FALSE, TRUE}

Pow2(n) == 2 ^ n

\* migen.fhdl.bitcontainer.bits_for for a non-negative n, as used by Signal(max=...)
RECURSIVE bits_for(_)
bits_for(n) == IF n < 2 THEN 1 ELSE 1 + bits_for(n \div 2)

Bit(v, n) == (v \div Pow2(n)) % 2

\* Cat(reversed([dat_r[n] for n in range(font_width)])): bit i of the result is
\* bit font_width-1-i of the operand.
RECURSIVE ReverseBits(_, _)
ReverseBits(v, w) ==
    IF w = 0 THEN 0
    ELSE (v % 2) * Pow2(w - 1) + ReverseBits(v \div 2, w - 1)

\* ------------------------------------------------------------------------
\* State
\* ------------------------------------------------------------------------
VARIABLES
    cfg,          \* constructor arguments: h_active, v_active, lengths of the init data
    status,       \* outcome of construction
    vga,          \* timing inputs sampled at the last clock edge
    char_ctr,     \* cell_index
    char_l_ctr,   \* row_start_cell_index
    font_h_ctr,   \* column_in_glyph
    font_v_ctr,   \* row_in_glyph
    char_dat_r,   \* char_rdport.dat_r (= char_data)
    attr_dat_r,   \* attr_rdport.dat_r (= attr_data)
    font_dat_r,   \* font_rdport.dat_r
    font_shreg,   \* shift_register
    attr_reg,     \* latched_attribute
    undrl_reg,    \* underline_active
    blink_ctr,    \* blink counter
    blink_reg,    \* blink phase
    ticks,        \* clock edges elapsed so far, modulo 2 * blink_cyc
    tg,           \* position of the timing source inside the frame
    obs           \* history: tracker values sampled at the last two edges

scan_vars  == <<char_ctr, char_l_ctr, font_h_ctr, font_v_ctr>>
read_vars  == <<char_dat_r, attr_dat_r, font_dat_r>>
latch_vars == <<font_shreg, attr_reg, undrl_reg>>
blink_vars == <<blink_ctr, blink_reg>>
vars == <<cfg, status, vga, char_ctr, char_l_ctr, font_h_ctr, font_v_ctr,
          char_dat_r, attr_dat_r, font_dat_r, font_shreg, attr_reg, undrl_reg,
          blink_ctr, blink_reg, ticks, tg, obs>>

\* ------------------------------------------------------------------------
\* Memories
\* ------------------------------------------------------------------------
\* char_mem depth: (h_active // font_width) * (v_active // font_height)
CellsPerRowOf(c) == c.h_active \div font_width
CharRowsOf(c)    == c.v_active \div font_height
Depth(c)         == CellsPerRowOf(c) * CharRowsOf(c)

\* Signal(max=char_mem.depth): number of bits of char_ctr and char_l_ctr
CtrBits(c) == bits_for(IF Depth(c) = 0 THEN 0 ELSE Depth(c) - 1)

\* Initial contents handed to the constructor.  Cell a holds character code
\* a + 1 and an attribute that differs from that of its neighbours.
CharInit(a) == (a + 1) % Pow2(CharWidth)
AttrInit(a) == (7 * a + 13) % Pow2(AttrWidth)
\* Font rows: odd multiplier, so distinct addresses below 2^font_width give
\* distinct rows.
FontInit(a) == (5 * a + 3) % Pow2(font_width)

\* Memory(init=...) pads the init data with zeros up to depth.
CharMem(c, a) == IF a < c.char_len THEN CharInit(a) ELSE 0
AttrMem(c, a) == IF a < c.attr_len THEN AttrInit(a) ELSE 0
FontMem(c, a) == IF a < c.font_len THEN FontInit(a) ELSE 0

\* A read at an address the memory does not have returns an unspecified word.
UndefChar == {0, Pow2(CharWidth) - 1}
UndefAttr == {0, Pow2(AttrWidth) - 1}
UndefFont == {0, Pow2(font_width) - 1}

CharRead(c, a) == IF a < Depth(c) THEN {CharMem(c, a)} ELSE UndefChar
AttrRead(c, a) == IF a < Depth(c) THEN {AttrMem(c, a)} ELSE UndefAttr
FontRead(c, a) == IF a < font_height * FontCodes THEN {FontMem(c, a)} ELSE UndefFont

\* ------------------------------------------------------------------------
\* Combinatorial signals
\* ------------------------------------------------------------------------
\* font_rdport.adr
font_adr == char_dat_r * font_height + font_v_ctr

\* font_line without the bit reversal
font_line_plain == font_dat_r

\* font_line
font_line == ReverseBits(font_dat_r, font_width)

\* pix_fg with the blink gate inverted
PixFg_gate(sh0, ul, at, bp) ==
    /\ (sh0 = 1) \/ (ul /\ Bit(at, 3) = 1)
    /\ (Bit(at, 4) = 0) \/ ~bp

\* pix_fg as a function of font_shreg[0], undrl_reg, attr_reg and blink_reg
PixFg(sh0, ul, at, bp) ==
    /\ (sh0 = 1) \/ (ul /\ Bit(at, 3) = 1)
    /\ (Bit(at, 4) = 0) \/ bp

\* vga.pix.r, vga.pix.g, vga.pix.b
PixRGB(sh0, ul, at, bp) ==
    <<PixFg(sh0, ul, at, bp) /\ Bit(at, 0) = 1,
      PixFg(sh0, ul, at, bp) /\ Bit(at, 1) = 1,
      PixFg(sh0, ul, at, bp) /\ Bit(at, 2) = 1>>

\* the colour outputs in the current state
pix == PixRGB(Bit(font_shreg, 0), undrl_reg, attr_reg, blink_reg)

\* ------------------------------------------------------------------------
\* Construction
\* ------------------------------------------------------------------------
VgaInputs == [v_stb : BOOL, h_stb : BOOL, v_en : BOOL, h_en : BOOL]
NoInput   == [v_stb |-> FALSE, h_stb |-> FALSE, v_en |-> FALSE, h_en |-> FALSE]

\* a constructor that rejects dimensions that are no multiple of the glyph
Construct_checked(c) ==
    IF c.h_active % font_width # 0 \/ c.v_active % font_height # 0
    THEN "config_error" ELSE "running"

\* VGATerminalSubtarget.__init__ performs no validation of its arguments.
Construct(c) == "running"

\* The configuration whose dimensions are multiples of the glyph and whose
\* init data fill the memories.
GoodCfg ==
    [h_active |-> CellsPerRow * font_width,
     v_active |-> CharRows * font_height,
     char_len |-> CellsPerRow * CharRows,
     attr_len |-> CellsPerRow * CharRows,
     font_len |-> font_height * FontCodes]

\* Position of the timing source: ph is the kind of the next tick, (x, y) the
\* pixel it emits when ph = "active", bl the blanking ticks already spent
\* before scanline y, adv whether the line-advance pulse before scanline y has
\* been given, since the blanking ticks spent after the last frame reset or
\* line advance (counted up to PipeDepth), run the length modulo font_width of
\* the run of horizontal_enable ticks that the last tick belongs to.
TgIdle == [ph |-> "free", x |-> 0, y |-> 0, bl |-> 0, since |-> 0, adv |-> FALSE, run |-> 0]
TgStart == [ph |-> "vsync", x |-> 0, y |-> 0, bl |-> 0, since |-> 0, adv |-> FALSE, run |-> 0]

\* History of the tracker: n edges seen so far (counted up to 2), ctr1 and v1
\* the values char_ctr and font_v_ctr had before the last edge, ctr2 the value
\* char_ctr had before the edge preceding it.
ObsInit == [n |-> 0, ctr1 |-> 0, v1 |-> 0, ctr2 |-> 0]
ObsNext ==
    [n |-> IF obs.n < 2 THEN obs.n + 1 ELSE 2,
     ctr1 |-> char_ctr, v1 |-> font_v_ctr, ctr2 |-> obs.ctr1]

InitRegs ==
    /\ vga = NoInput
    /\ char_ctr = 0 /\ char_l_ctr = 0 /\ font_h_ctr = 0 /\ font_v_ctr = 0
    /\ char_dat_r = 0 /\ attr_dat_r = 0 /\ font_dat_r = 0
    /\ font_shreg = 0 /\ attr_reg = 0 /\ undrl_reg = FALSE
    /\ blink_ctr = 0 /\ blink_reg = FALSE
    /\ ticks = 0

Init ==
    /\ cfg = GoodCfg
    /\ status = Construct(cfg)
    /\ tg = TgIdle
    /\ obs = ObsInit
    /\ InitRegs

\* ------------------------------------------------------------------------
\* One clock edge
\* ------------------------------------------------------------------------
\* the three branches of the tracker
FrameReset ==
    /\ char_ctr' = 0
    /\ char_l_ctr' = 0
    /\ font_v_ctr' = 0
    /\ font_h_ctr' = 0

LineAdvance ==
    /\ IF font_v_ctr = font_height - 1
       THEN /\ char_l_ctr' = char_ctr
            /\ font_v_ctr' = 0
            /\ char_ctr' = char_ctr
       ELSE /\ char_ctr' = char_l_ctr
            /\ font_v_ctr' = (font_v_ctr + 1) % Pow2(bits_for(font_height - 1))
            /\ char_l_ctr' = char_l_ctr
    /\ font_h_ctr' = 0

\* a pixel advance whose column counter is one bit wider and wraps one column late
PixelAdvance_wide ==
    /\ char_ctr' = IF font_h_ctr = 0
                   THEN (char_ctr + 1) % Pow2(CtrBits(cfg))
                   ELSE char_ctr
    /\ font_h_ctr' = IF font_h_ctr = font_width
                     THEN 0
                     ELSE (font_h_ctr + 1) % Pow2(bits_for(font_width))
    /\ UNCHANGED <<char_l_ctr, font_v_ctr>>

\* a pixel advance that moves to the next cell at the last column of a glyph
PixelAdvance_last ==
    /\ char_ctr' = IF font_h_ctr = font_width - 1
                   THEN (char_ctr + 1) % Pow2(CtrBits(cfg))
                   ELSE char_ctr
    /\ font_h_ctr' = IF font_h_ctr = font_width - 1
                     THEN 0
                     ELSE (font_h_ctr + 1) % Pow2(bits_for(font_width - 1))
    /\ UNCHANGED <<char_l_ctr, font_v_ctr>>

PixelAdvance ==
    /\ char_ctr' = IF font_h_ctr = 0
                   THEN (char_ctr + 1) % Pow2(CtrBits(cfg))
                   ELSE char_ctr
    /\ font_h_ctr' = IF font_h_ctr = font_width - 1
                     THEN 0
                     ELSE (font_h_ctr + 1) % Pow2(bits_for(font_width - 1))
    /\ UNCHANGED <<char_l_ctr, font_v_ctr>>

\* a tracker whose frame reset leaves row_start_cell_index alone
Tracker_keep_row(in) ==
    IF in.v_stb THEN
        /\ char_ctr' = 0
        /\ font_v_ctr' = 0
        /\ font_h_ctr' = 0
        /\ UNCHANGED char_l_ctr
    ELSE IF in.h_stb /\ in.v_en THEN LineAdvance
    ELSE IF in.v_en /\ in.h_en THEN PixelAdvance
    ELSE UNCHANGED scan_vars

\* a tracker that tests the pixel advance before the line advance
Tracker_pixel_first(in) ==
    IF in.v_stb THEN FrameReset
    ELSE IF in.v_en /\ in.h_en THEN PixelAdvance
    ELSE IF in.h_stb /\ in.v_en THEN LineAdvance
    ELSE UNCHANGED scan_vars

\* a tracker whose line advance always rolls back and never commits the row
Tracker_no_commit(in) ==
    IF in.v_stb THEN FrameReset
    ELSE IF in.h_stb /\ in.v_en THEN
        /\ char_ctr' = char_l_ctr
        /\ font_v_ctr' = IF font_v_ctr = font_height - 1 THEN 0 ELSE font_v_ctr + 1
        /\ char_l_ctr' = char_l_ctr
        /\ font_h_ctr' = 0
    ELSE IF in.v_en /\ in.h_en THEN PixelAdvance
    ELSE UNCHANGED scan_vars

\* a tracker whose line advance keeps column_in_glyph when it rolls back
Tracker_keep_column(in) ==
    IF in.v_stb THEN FrameReset
    ELSE IF in.h_stb /\ in.v_en THEN
        IF font_v_ctr = font_height - 1
        THEN /\ char_l_ctr' = char_ctr
             /\ font_v_ctr' = 0
             /\ font_h_ctr' = 0
             /\ UNCHANGED char_ctr
        ELSE /\ char_ctr' = char_l_ctr
             /\ font_v_ctr' = font_v_ctr + 1
             /\ UNCHANGED <<char_l_ctr, font_h_ctr>>
    ELSE IF in.v_en /\ in.h_en THEN PixelAdvance
    ELSE UNCHANGED scan_vars

\* a tracker whose line advance does not look at vertical_enable
Tracker_hsync_any(in) ==
    IF in.v_stb THEN FrameReset
    ELSE IF in.h_stb THEN LineAdvance
    ELSE IF in.v_en /\ in.h_en THEN PixelAdvance
    ELSE UNCHANGED scan_vars

\* self.sync.pix, first statement: the scan position tracker
Tracker(in) ==
    IF in.v_stb THEN FrameReset
    ELSE IF in.h_stb /\ in.v_en THEN LineAdvance
    ELSE IF in.v_en /\ in.h_en THEN PixelAdvance
    ELSE UNCHANGED scan_vars

\* a serializer that latches at the first column of a glyph
LatchCond_first(in) == ~in.h_en \/ font_h_ctr = 0

\* condition of the second statement: the serializer latches
LatchCond(in) == ~in.h_en \/ font_h_ctr = font_width - 1

\* a serializer that shifts towards the most significant bit
Serializer_left(in) ==
    IF LatchCond(in) THEN
        /\ font_shreg' = font_line
        /\ attr_reg' = attr_dat_r
        /\ undrl_reg' = (font_v_ctr = font_height - 1)
    ELSE
        /\ font_shreg' = (font_shreg * 2) % Pow2(font_width)
        /\ UNCHANGED <<attr_reg, undrl_reg>>

\* a serializer that raises the underline flag on the first scanline of a glyph
Serializer_first_row(in) ==
    IF LatchCond(in) THEN
        /\ font_shreg' = font_line
        /\ attr_reg' = attr_dat_r
        /\ undrl_reg' = (font_v_ctr = 0)
    ELSE
        /\ font_shreg' = font_shreg \div 2
        /\ UNCHANGED <<attr_reg, undrl_reg>>

\* a serializer that loads the attribute at every edge
Serializer_attr_always(in) ==
    IF LatchCond(in) THEN
        /\ font_shreg' = font_line
        /\ attr_reg' = attr_dat_r
        /\ undrl_reg' = (font_v_ctr = font_height - 1)
    ELSE
        /\ font_shreg' = font_shreg \div 2
        /\ attr_reg' = attr_dat_r
        /\ UNCHANGED undrl_reg

\* self.sync.pix, second statement: the glyph serializer
Serializer(in) ==
    IF LatchCond(in) THEN
        /\ font_shreg' = font_line
        /\ attr_reg' = attr_dat_r
        /\ undrl_reg' = (font_v_ctr = font_height - 1)
    ELSE
        /\ font_shreg' = font_shreg \div 2
        /\ UNCHANGED <<attr_reg, undrl_reg>>

\* read ports whose glyph read looks the character up in the same cycle
ReadPorts_direct ==
    /\ char_dat_r' \in CharRead(cfg, char_ctr)
    /\ attr_dat_r' \in AttrRead(cfg, char_ctr)
    /\ font_dat_r' \in FontRead(cfg, CharMem(cfg, char_ctr) * font_height + font_v_ctr)

\* the three synchronous read ports (re tied to 1)
ReadPorts ==
    /\ char_dat_r' \in CharRead(cfg, char_ctr)
    /\ attr_dat_r' \in AttrRead(cfg, char_ctr)
    /\ font_dat_r' \in FontRead(cfg, font_adr)

\* a blink oscillator reloading one count late
Blink_late ==
    IF blink_ctr = blink_cyc THEN
        /\ blink_ctr' = 0
        /\ blink_reg' = ~blink_reg
    ELSE
        /\ blink_ctr' = (blink_ctr + 1) % Pow2(bits_for(blink_cyc))
        /\ UNCHANGED blink_reg

\* the blink oscillator
Blink ==
    IF blink_ctr = blink_cyc - 1 THEN
        /\ blink_ctr' = 0
        /\ blink_reg' = ~blink_reg
    ELSE
        /\ blink_ctr' = (blink_ctr + 1) % Pow2(bits_for(blink_cyc - 1))
        /\ UNCHANGED blink_reg

\* everything the pix domain does at one edge with inputs in
Edge(in) ==
    /\ status = "running"
    /\ vga' = in
    /\ Tracker(in)
    /\ Serializer(in)
    /\ ReadPorts
    /\ Blink
    /\ ticks' = (ticks + 1) % (2 * blink_cyc)
    /\ UNCHANGED <<cfg, status>>

\* a clock edge with arbitrary timing inputs
Tick ==
    /\ \E in \in VgaInputs : Edge(in)
    /\ obs' = ObsNext
    /\ UNCHANGED tg

Next == Tick

Spec == Init /\ [][Next]_vars

\* ------------------------------------------------------------------------
\* Well-formed frame timing: one vertical_sync tick per frame; before every
\* active scanline a horizontal blanking interval of PipeDepth..MaxBlank
\* ticks with horizontal_enable low, which between two scanlines contains
\* one line-advance pulse at an arbitrary position; v_active scanlines of
\* h_active ticks with both enables high; then vertical blanking.
\* ------------------------------------------------------------------------
Min(a, b) == IF a < b THEN a ELSE b

\* the inputs the timing source may present at the next tick
TgInputs(g) ==
    CASE g.ph = "vsync"  -> {[v_stb |-> TRUE,  h_stb |-> FALSE, v_en |-> FALSE, h_en |-> FALSE]}
      [] g.ph = "blank"  -> {[v_stb |-> FALSE, h_stb |-> FALSE, v_en |-> TRUE,  h_en |-> FALSE]}
      [] g.ph = "pulse"  -> {[v_stb |-> FALSE, h_stb |-> TRUE,  v_en |-> TRUE,  h_en |-> FALSE]}
      [] g.ph = "active" -> {[v_stb |-> FALSE, h_stb |-> FALSE, v_en |-> TRUE,  h_en |-> TRUE]}
      [] g.ph = "vblank" -> {[v_stb |-> FALSE, h_stb |-> hs, v_en |-> FALSE, h_en |-> he] :
                                 hs \in BOOL, he \in BOOL}
      [] OTHER -> {}

\* what may follow inside a horizontal blanking interval
BlankNext(g) ==
    {[g EXCEPT !.ph = "blank"] : z \in {0} \cap (IF g.bl < MaxBlank THEN {0} ELSE {})}
    \cup {[g EXCEPT !.ph = "pulse"] : z \in {0} \cap (IF ~g.adv /\ g.bl < MaxBlank THEN {0} ELSE {})}
    \cup {[g EXCEPT !.ph = "active", !.x = 0] :
              z \in {0} \cap (IF g.adv /\ g.bl >= PipeDepth THEN {0} ELSE {})}

\* the positions the timing source may take after a tick at position g
TgNext(g) ==
    CASE g.ph = "vsync" ->
            BlankNext([g EXCEPT !.y = 0, !.x = 0, !.bl = 0, !.since = 0, !.adv = TRUE])
      [] g.ph = "blank" ->
            BlankNext([g EXCEPT !.bl = g.bl + 1, !.since = Min(g.since + 1, PipeDepth)])
      [] g.ph = "pulse" ->
            BlankNext([g EXCEPT !.bl = g.bl + 1, !.since = 0, !.adv = TRUE])
      [] g.ph = "active" ->
            IF g.x < cfg.h_active - 1 THEN {[g EXCEPT !.x = g.x + 1]}
            ELSE IF g.y < cfg.v_active - 1
                 THEN BlankNext([g EXCEPT !.y = g.y + 1, !.x = 0, !.bl = 0, !.adv = FALSE])
                 ELSE {[g EXCEPT !.ph = "vblank", !.x = 0, !.bl = 1]}
      [] g.ph = "vblank" ->
            {[g EXCEPT !.bl = g.bl + 1] : z \in {0} \cap (IF g.bl < MaxVBlank THEN {0} ELSE {})}
            \cup {[TgStart EXCEPT !.run = g.run]}
      [] OTHER -> {}

\* the run of horizontal_enable ticks after a tick with inputs in
RunNext(g, in) == IF in.h_en THEN (g.run + 1) % font_width ELSE 0

\* a clock edge with the inputs of the timing source
FrameTick ==
    /\ \E in \in TgInputs(tg) :
          /\ Edge(in)
          /\ tg' \in {[g EXCEPT !.run = RunNext(tg, in)] : g \in TgNext(tg)}
    /\ obs' = ObsNext

FrameInit ==
    /\ cfg = GoodCfg
    /\ status = Construct(cfg)
    /\ tg = TgStart
    /\ obs = ObsInit
    /\ InitRegs

NextFrame == FrameTick

SpecFrame == FrameInit /\ [][NextFrame]_vars

\* ------------------------------------------------------------------------
\* Construction with arbitrary arguments
\* ------------------------------------------------------------------------
\* Arguments of the well-formed configuration and of configurations that
\* deviate from it in one respect: a width or height that is no multiple of
\* the glyph, or init data shorter than the memory they initialise.
CfgSet ==
    {GoodCfg,
     [GoodCfg EXCEPT !.h_active = CellsPerRow * font_width + 1],
     [GoodCfg EXCEPT !.v_active = CharRows * font_height + 1],
     [GoodCfg EXCEPT !.char_len = CellsPerRow * CharRows - 2],
     [GoodCfg EXCEPT !.attr_len = CellsPerRow * CharRows - 2],
     [GoodCfg EXCEPT !.font_len = font_height]}

CfgInit ==
    /\ cfg \in CfgSet
    /\ status = Construct(cfg)
    /\ tg = TgStart
    /\ obs = ObsInit
    /\ InitRegs

NextCfg == FrameTick

SpecCfg == CfgInit /\ [][NextCfg]_vars

\* ------------------------------------------------------------------------
\* Well-formed frames on two screens: the 3 x 2 cells of GoodCfg and a screen
\* of 2 x 2 cells, whose cell count is a power of two.
\* ------------------------------------------------------------------------
PowCfg ==
    [h_active |-> 2 * font_width,
     v_active |-> 2 * font_height,
     char_len |-> 4,
     attr_len |-> 4,
     font_len |-> font_height * FontCodes]

GridInit ==
    /\ cfg \in {GoodCfg, PowCfg}
    /\ status = Construct(cfg)
    /\ tg = TgStart
    /\ obs = ObsInit
    /\ InitRegs

NextGrid == FrameTick

SpecGrid == GridInit /\ [][NextGrid]_vars

\* ------------------------------------------------------------------------
\* Properties of the scan position tracker under arbitrary inputs (Spec)
\* ------------------------------------------------------------------------
ScanZero == char_ctr = 0 /\ char_l_ctr = 0 /\ font_v_ctr = 0 /\ font_h_ctr = 0

\* C1 (frame reset): after a tick on which vertical_sync was asserted, whatever
\* the other three inputs and the state before it, cell_index,
\* row_start_cell_index, row_in_glyph and column_in_glyph are all 0.
C1_FrameReset == vga.v_stb => ScanZero

\* a frame reset taken with all other inputs asserted, from a state in which
\* cell 4 was being read on the last scanline of a glyph
C1_Witness ==
    /\ vga.v_stb /\ vga.h_stb /\ vga.v_en /\ vga.h_en
    /\ char_dat_r = CharMem(cfg, 4)
    /\ ScanZero

\* C5 (first match wins): a tick with vertical_sync and any of the lower
\* conditions applies the frame reset only; a tick without vertical_sync on
\* which the line-advance and the pixel-advance conditions both hold applies
\* the line advance only: cell_index is not incremented, column_in_glyph
\* becomes 0.
C5_FirstMatch ==
    [][ /\ (vga'.v_stb /\ vga'.v_en /\ (vga'.h_stb \/ vga'.h_en)) => ScanZero'
        /\ (~vga'.v_stb /\ vga'.h_stb /\ vga'.v_en /\ vga'.h_en) =>
              /\ font_h_ctr' = 0
              /\ char_ctr' = (IF font_v_ctr = font_height - 1 THEN char_ctr ELSE char_l_ctr)
              /\ char_l_ctr' = (IF font_v_ctr = font_height - 1 THEN char_ctr ELSE char_l_ctr)
              /\ font_v_ctr' = (IF font_v_ctr = font_height - 1 THEN 0 ELSE font_v_ctr + 1)
      ]_vars

\* line advance and pixel advance both enabled at column 0 of cell 1: the row
\* was committed at cell 1 and cell_index did not move on to cell 2
C5_Witness ==
    /\ ~vga.v_stb /\ vga.h_stb /\ vga.v_en /\ vga.h_en
    /\ char_dat_r = CharMem(cfg, 1)
    /\ char_ctr = 1 /\ char_l_ctr = 1 /\ font_h_ctr = 0 /\ font_v_ctr = 0

\* C10 (line advance): on a tick without vertical_sync and with horizontal_sync
\* and vertical_enable, on the last scanline of a glyph row_start_cell_index
\* takes cell_index, row_in_glyph becomes 0 and cell_index stays; on another
\* scanline cell_index takes row_start_cell_index, row_in_glyph grows by one
\* and row_start_cell_index stays; column_in_glyph becomes 0 in both cases.
C10_LineAdvance ==
    [][ (~vga'.v_stb /\ vga'.h_stb /\ vga'.v_en) =>
          /\ font_h_ctr' = 0
          /\ font_v_ctr = font_height - 1 =>
                (char_l_ctr' = char_ctr /\ font_v_ctr' = 0 /\ char_ctr' = char_ctr)
          /\ font_v_ctr # font_height - 1 =>
                (char_ctr' = char_l_ctr /\ font_v_ctr' = font_v_ctr + 1
                 /\ char_l_ctr' = char_l_ctr)
      ]_vars

\* a roll-back: the line advance was taken while cell 2 was addressed in the
\* middle of a glyph, and cell_index is back at the row start 0
C10_Witness ==
    /\ ~vga.v_stb /\ vga.h_stb /\ vga.v_en
    /\ char_dat_r = CharMem(cfg, 2)
    /\ char_ctr = 0 /\ char_l_ctr = 0 /\ font_v_ctr = 1 /\ font_h_ctr = 0

\* ------------------------------------------------------------------------
\* Blink oscillator
\* ------------------------------------------------------------------------
\* C6 (blink determinism): after n ticks the counter is n mod blink_cyc and the
\* phase is ((n div blink_cyc) mod 2 = 1), whatever the inputs were; ticks is n
\* modulo 2 * blink_cyc, which both expressions depend on.
C6_Blink ==
    /\ blink_ctr = ticks % blink_cyc
    /\ blink_reg = ((ticks \div blink_cyc) % 2 = 1)
    /\ blink_ctr \in 0 .. blink_cyc - 1

\* the phase has just inverted on a tick that was a frame reset
C6_Witness ==
    /\ ticks = blink_cyc /\ blink_ctr = 0 /\ blink_reg
    /\ vga.v_stb /\ ScanZero

\* ------------------------------------------------------------------------
\* Pixel compositor (SpecFrame)
\* ------------------------------------------------------------------------
\* the outputs the compositor is to give, as a table over its inputs
ExpectedRGB(sh0, ul, at, bp) ==
    LET red   == at % 2
        green == (at \div 2) % 2
        blue  == (at \div 4) % 2
        under == (at \div 8) % 2
        blink == (at \div 16) % 2
        fg    == IF blink = 1 /\ ~bp THEN FALSE
                 ELSE IF sh0 = 1 THEN TRUE
                 ELSE ul /\ under = 1
    IN  <<fg /\ red = 1, fg /\ green = 1, fg /\ blue = 1>>

\* C8 (compositor): for all 2^8 combinations of shift bit, underline flag,
\* blink phase and attribute, and in every reachable state, the outputs are
\* the attribute's colour bits gated by
\* (shift bit OR (underline_active AND underline)) AND (NOT blink OR phase).
C8_Compositor ==
    /\ \A sh0 \in 0 .. 1, ul \in BOOL, bp \in BOOL, at \in 0 .. Pow2(AttrWidth) - 1 :
          PixRGB(sh0, ul, at, bp) = ExpectedRGB(sh0, ul, at, bp)
    /\ pix = ExpectedRGB(font_shreg % 2, undrl_reg, attr_reg, blink_reg)
    /\ (Bit(attr_reg, 4) = 1 /\ ~blink_reg) => pix = <<FALSE, FALSE, FALSE>>
    /\ (attr_reg = 13 /\ undrl_reg) => pix = <<TRUE, FALSE, TRUE>>

\* colour 0b101 with underline on an underline row whose foreground bit is 0,
\* shown as (1, 0, 1)
C8_Witness ==
    /\ attr_reg = 13 /\ undrl_reg /\ Bit(font_shreg, 0) = 0
    /\ pix = <<TRUE, FALSE, TRUE>>

\* ------------------------------------------------------------------------
\* Pixel alignment
\* ------------------------------------------------------------------------
\* the cell that pixel (x, y) belongs to and the foreground bit it shows
CellOf(x, y) == (y \div font_height) * CellsPerRowOf(cfg) + (x \div font_width)
GlyphRowOf(x, y) == FontMem(cfg, CharMem(cfg, CellOf(x, y)) * font_height + (y % font_height))
PixelBitOf(x, y) == Bit(GlyphRowOf(x, y), font_width - 1 - (x % font_width))

\* C3 as stated: at every tick that emits pixel (x, y) of a well-formed frame,
\* bit 0 of the shift register is the bit of the glyph of the cell under (x, y).
C3_AlignedAnyBlanking ==
    tg.ph = "active" => Bit(font_shreg, 0) = PixelBitOf(tg.x, tg.y)

\* C3 amended: the same, for scanlines preceded by at least PipeDepth blanking
\* ticks after the frame reset or the line-advance pulse.
C3_Aligned ==
    (tg.ph = "active" /\ tg.since >= PipeDepth)
        => Bit(font_shreg, 0) = PixelBitOf(tg.x, tg.y)

\* the last pixel of the frame is about to be emitted on a settled scanline
C3_Witness ==
    /\ tg.ph = "active" /\ tg.since >= PipeDepth
    /\ tg.x = cfg.h_active - 1 /\ tg.y = cfg.v_active - 1
    /\ Bit(font_shreg, 0) = PixelBitOf(tg.x, tg.y)

\* ------------------------------------------------------------------------
\* Cell counters during a well-formed frame (SpecFrame)
\* ------------------------------------------------------------------------
\* C2 as stated: cell_index and row_start_cell_index stay below the number of
\* cells throughout a well-formed frame.
C2_BelowTotal == char_ctr < Depth(cfg) /\ char_l_ctr < Depth(cfg)

\* first cell of the character row that scanline y belongs to
RowStart(y) == (y \div font_height) * CellsPerRowOf(cfg)

\* C4 (row repeat): on every scanline y of a character row entered at R the
\* tracker addresses cells R, R+1, ... in step with the pixels, with
\* row_start_cell_index = R and row_in_glyph = y mod font_height; the line
\* advance before a scanline inside the row rolls cell_index back to R and
\* keeps row_start_cell_index; the line advance after the last scanline of the
\* row sets row_start_cell_index to R + cells_per_row; no other tick than a
\* frame reset changes row_start_cell_index.
C4_RowRepeat ==
    /\ [](tg.ph = "active" =>
            /\ char_l_ctr = RowStart(tg.y)
            /\ font_v_ctr = tg.y % font_height
            /\ char_ctr = (RowStart(tg.y) + (tg.x + font_width - 1) \div font_width)
                              % Pow2(CtrBits(cfg)))
    /\ [][ /\ (tg.ph = "pulse" /\ tg.y % font_height # 0) =>
                (char_ctr' = RowStart(tg.y) /\ char_l_ctr' = char_l_ctr
                 /\ char_l_ctr = RowStart(tg.y))
           /\ (tg.ph = "pulse" /\ tg.y % font_height = 0) =>
                (char_l_ctr = RowStart(tg.y - 1)
                 /\ char_l_ctr' = char_l_ctr + CellsPerRowOf(cfg)
                 /\ char_ctr' = char_l_ctr')
           /\ (tg.ph \notin {"pulse", "vsync"}) => char_l_ctr' = char_l_ctr
         ]_vars

\* the last scanline of the frame starts: the second character row is scanned
\* for the font_height-th time from its row start
C4_Witness ==
    /\ tg.ph = "active" /\ tg.x = 0 /\ tg.y = cfg.v_active - 1
    /\ CharRowsOf(cfg) > 1
    /\ char_l_ctr = (CharRowsOf(cfg) - 1) * CellsPerRowOf(cfg)
    /\ char_ctr = char_l_ctr
    /\ font_v_ctr = font_height - 1

\* ------------------------------------------------------------------------
\* Latch events of the serializer (SpecFrame)
\* ------------------------------------------------------------------------
\* C7 as stated: on a tick with horizontal_enable the serializer latches
\* exactly when the tick is the font_width-th, 2*font_width-th, ... of its run
\* of horizontal_enable ticks.
C7_EveryRun ==
    [][ vga'.h_en => (LatchCond(vga') <=> tg'.run = 0) ]_vars

\* C7 amended: the same for the pixel-advance ticks (vertical_enable and
\* horizontal_enable without vertical_sync or horizontal_sync), whose runs
\* begin with column_in_glyph = 0.
C7_PixelRun ==
    [][ (vga'.h_en /\ vga'.v_en /\ ~vga'.h_stb /\ ~vga'.v_stb)
            => (LatchCond(vga') <=> tg'.run = 0) ]_vars

\* the font_width-th pixel of a scanline has just been emitted and the
\* attribute of the second cell of the row has been latched with it
C7_Witness ==
    /\ vga.h_en /\ vga.v_en /\ tg.ph = "active" /\ tg.x = font_width /\ tg.run = 0
    /\ tg.since >= PipeDepth
    /\ attr_reg = AttrMem(cfg, CellOf(tg.x, tg.y))
    /\ attr_reg # AttrMem(cfg, CellOf(0, tg.y))

\* ------------------------------------------------------------------------
\* Construction (SpecCfg)
\* ------------------------------------------------------------------------
Malformed(c) ==
    \/ c.h_active % font_width # 0
    \/ c.v_active % font_height # 0
    \/ c.char_len # Depth(c)
    \/ c.attr_len # Depth(c)
    \/ c.font_len # font_height * FontCodes

\* C9 as stated: a malformed configuration ends in a configuration error and
\* the engine never performs a tick.
C9_Rejected ==
    Malformed(cfg) => (status = "config_error" /\ vga = NoInput /\ ticks = 0)

\* C9 amended: construction succeeds for every configuration, malformed or
\* not, and the engine runs.
C9_Accepted == status = "running"

\* a screen one pixel wider than three glyphs is being scanned with the cell
\* count truncated to three per row
C9_Witness ==
    /\ Malformed(cfg) /\ cfg.h_active % font_width = 1
    /\ status = "running"
    /\ CellsPerRowOf(cfg) * font_width < cfg.h_active
    /\ tg.ph = "active" /\ tg.x = cfg.h_active - 1

\* ------------------------------------------------------------------------
\* Pixel advance under arbitrary inputs (Spec)
\* ------------------------------------------------------------------------
PixelTick(in) == in.v_en /\ in.h_en /\ ~in.v_stb /\ ~(in.h_stb /\ in.v_en)

\* C11 as stated: a pixel advance adds 1 to cell_index exactly when
\* column_in_glyph = 0, steps column_in_glyph with wrap at font_width - 1 and
\* leaves row_start_cell_index and row_in_glyph alone.
C11_PixelAdvance ==
    [][ PixelTick(vga') =>
          /\ char_ctr' = (IF font_h_ctr = 0 THEN char_ctr + 1 ELSE char_ctr)
          /\ font_h_ctr' = (IF font_h_ctr = font_width - 1 THEN 0 ELSE font_h_ctr + 1)
          /\ char_l_ctr' = char_l_ctr /\ font_v_ctr' = font_v_ctr
      ]_vars

\* C11 amended: the same with the addition taken modulo 2^w, w the width of
\* the cell counter.
C11_PixelAdvanceMod ==
    [][ PixelTick(vga') =>
          /\ char_ctr' = (IF font_h_ctr = 0
                          THEN (char_ctr + 1) % Pow2(CtrBits(cfg)) ELSE char_ctr)
          /\ font_h_ctr' = (IF font_h_ctr = font_width - 1 THEN 0 ELSE font_h_ctr + 1)
          /\ char_l_ctr' = char_l_ctr /\ font_v_ctr' = font_v_ctr
      ]_vars

\* a pixel advance at column 0 taken while cell 2 was addressed: cell_index is
\* 3 and column_in_glyph 1
C11_Witness ==
    /\ PixelTick(vga)
    /\ char_dat_r = CharMem(cfg, 2)
    /\ char_ctr = 3 /\ font_h_ctr = 1

\* ------------------------------------------------------------------------
\* Serializer step under arbitrary inputs (Spec)
\* ------------------------------------------------------------------------
\* C13 (serializer step): on a tick with horizontal_enable low or
\* column_in_glyph = font_width - 1 bit i of the shift register becomes bit
\* font_width-1-i of the fetched glyph row, latched_attribute the fetched
\* attribute and underline_active (row_in_glyph = font_height - 1); on every
\* other tick bit i becomes the old bit i+1, the top bit 0, and
\* latched_attribute and underline_active stay.
C13_SerializerStep ==
    [][ /\ (~vga'.h_en \/ font_h_ctr = font_width - 1) =>
              /\ \A i \in 0 .. font_width - 1 :
                    Bit(font_shreg', i) = Bit(font_dat_r, font_width - 1 - i)
              /\ font_shreg' < Pow2(font_width)
              /\ attr_reg' = attr_dat_r
              /\ undrl_reg' = (font_v_ctr = font_height - 1)
        /\ (vga'.h_en /\ font_h_ctr # font_width - 1) =>
              /\ \A i \in 0 .. font_width - 2 :
                    Bit(font_shreg', i) = Bit(font_shreg, i + 1)
              /\ Bit(font_shreg', font_width - 1) = 0
              /\ font_shreg' < Pow2(font_width)
              /\ attr_reg' = attr_reg /\ undrl_reg' = undrl_reg
      ]_vars

\* two shift ticks after the first row of the glyph of cell 0 was latched:
\* bit 0 of the register is bit font_width-3 of that row
C13_Witness ==
    /\ PixelTick(vga) /\ font_h_ctr = 2
    /\ font_shreg = ReverseBits(FontMem(cfg, CharMem(cfg, 0) * font_height), font_width) \div 4
    /\ font_shreg # 0
    /\ Bit(font_shreg, 0) = Bit(FontMem(cfg, CharMem(cfg, 0) * font_height), font_width - 3)

\* ------------------------------------------------------------------------
\* Idle ticks and counter ranges under arbitrary inputs (Spec)
\* ------------------------------------------------------------------------
\* C16 (idle): a tick without vertical_sync, without (horizontal_sync and
\* vertical_enable) and without (vertical_enable and horizontal_enable)
\* changes none of cell_index, row_start_cell_index, row_in_glyph and
\* column_in_glyph.
C16_Idle ==
    [][ (~vga'.v_stb /\ ~(vga'.h_stb /\ vga'.v_en) /\ ~(vga'.v_en /\ vga'.h_en))
            => UNCHANGED scan_vars ]_vars

\* horizontal_sync and horizontal_enable pulsed with vertical_enable low in
\* the middle of a glyph of cell 2: the scan position did not move
C16_Witness ==
    /\ ~vga.v_stb /\ vga.h_stb /\ vga.h_en /\ ~vga.v_en
    /\ char_dat_r = CharMem(cfg, 2)
    /\ char_ctr = 2 /\ font_h_ctr = 1 /\ font_v_ctr = 1 /\ char_l_ctr = 0

\* C17 (counter bounds): row_in_glyph stays in 0..font_height-1 and
\* column_in_glyph in 0..font_width-1, so the glyph address stays below
\* font_height * 256.
C17_CounterBounds ==
    /\ font_v_ctr \in 0 .. font_height - 1
    /\ font_h_ctr \in 0 .. font_width - 1
    /\ font_adr < font_height * FontCodes

\* both counters at their maximum while the largest character code is on
\* the read port: the last row of the font memory is addressed
C17_Witness ==
    /\ font_v_ctr = font_height - 1 /\ font_h_ctr = font_width - 1
    /\ char_dat_r = Pow2(CharWidth) - 1
    /\ font_adr = font_height * FontCodes - 1

\* ------------------------------------------------------------------------
\* Depth of the read pipeline under arbitrary inputs (Spec)
\* ------------------------------------------------------------------------
\* C12 as stated: the glyph row loaded at a latch is the reversed row
\* Glyph[Char[cell_index one tick earlier] * font_height + row_in_glyph one
\* tick earlier].
C12_OneTickLag ==
    [][ (LatchCond(vga') /\ obs.n >= 2 /\ obs.ctr1 < Depth(cfg)) =>
           font_shreg' = ReverseBits(FontMem(cfg, CharMem(cfg, obs.ctr1) * font_height
                                                   + obs.v1), font_width)
      ]_vars

\* C12 amended: the glyph row loaded at a latch is the reversed row
\* Glyph[Char[cell_index two ticks earlier] * font_height + row_in_glyph one
\* tick earlier]: the character read lags cell_index by one tick and the
\* glyph read lags the character code and row_in_glyph by one more.
C12_TwoTickLag ==
    [][ (LatchCond(vga') /\ obs.n >= 2 /\ obs.ctr2 < Depth(cfg)) =>
           font_shreg' = ReverseBits(FontMem(cfg, CharMem(cfg, obs.ctr2) * font_height
                                                   + obs.v1), font_width)
      ]_vars

\* a latch taken right after cell_index moved from cell 1 to cell 2 while on
\* the second scanline: the register holds the second row of the glyph of
\* cell 1
C12_Witness ==
    /\ obs.n >= 2 /\ obs.ctr2 = 1 /\ obs.ctr1 = 2 /\ obs.v1 = 1
    /\ ~vga.h_en
    /\ font_shreg = ReverseBits(FontMem(cfg, CharMem(cfg, 1) * font_height + 1), font_width)
    /\ font_shreg # ReverseBits(FontMem(cfg, CharMem(cfg, 2) * font_height + 1), font_width)

C15_PairedAnyBlanking ==
    tg.ph = "active" => attr_reg = AttrMem(cfg, CellOf(tg.x, tg.y))

\* C15 amended: on every tick of the active region of a scanline preceded by
\* at least PipeDepth blanking ticks after the line-advance pulse or the frame
\* reset, latched_attribute is the attribute of the cell under the pixel and
\* the shift register holds the glyph row of that same cell, shifted by the
\* column inside the glyph.
C15_Paired ==
    (tg.ph = "active" /\ tg.since >= PipeDepth) =>
        /\ attr_reg = AttrMem(cfg, CellOf(tg.x, tg.y))
        /\ font_shreg = ReverseBits(GlyphRowOf(tg.x, tg.y), font_width)
                            \div Pow2(tg.x % font_width)

\* the first pixel of the last cell is shown with the attribute of the last
\* cell, not with that of the cell before it
C15_Witness ==
    /\ tg.ph = "active" /\ tg.since >= PipeDepth
    /\ tg.y = cfg.v_active - 1 /\ tg.x = cfg.h_active - font_width
    /\ attr_reg = AttrMem(cfg, Depth(cfg) - 1)
    /\ attr_reg # AttrMem(cfg, Depth(cfg) - 2)

\* ------------------------------------------------------------------------
\* Row starts on screens of any cell count (SpecGrid)
\* ------------------------------------------------------------------------
\* C18 (row-start alignment): row_start_cell_index is a multiple of
\* cells_per_row and cell_index lies between row_start_cell_index and
\* row_start_cell_index + cells_per_row.
C18_RowStartPlain ==
    /\ char_l_ctr % CellsPerRowOf(cfg) = 0
    /\ char_l_ctr <= char_ctr
    /\ char_ctr <= char_l_ctr + CellsPerRowOf(cfg)

====
